---------------------------- MODULE Spec2Model ----------------------------
(***************************************************************************)
(* Syscall entry and dispatch layer of the Aero kernel                     *)
(* (src/aero_kernel/src/syscall/mod.rs): the dispatch table                *)
(* generic_do_syscall, the exec argument marshaling (exec_args_from_slice, *)
(* ExecArgs::push_into_stack), the SysLog trace record and the tag_memory  *)
(* handler.  Each component is a state machine of its own, with its own    *)
(* specification; the variables of the other components stay at rest.      *)
(***************************************************************************)
EXTENDS Integers, Sequences, FiniteSets, TLC

VARIABLES
    \* generic_do_syscall
    frame,        \* the seven words a..g of the invocation
    dpc,          \* "idle" | "handler" | "encode" | "done"
    calls,        \* handler invocations made: <<[fn, args]>>
    errlog,       \* log::error! lines written
    hret,         \* what the handler collaborator returned
    result,       \* the local `result` of generic_do_syscall
    retword,      \* the word generic_do_syscall returned
    \* SysLog
    slog,         \* the record: [name, result, args]
    slpc,         \* "none" | "building" | "flushed" | "panicked"
    traceLog,     \* log::trace! lines written
    unwinds,      \* calls of unwind_stack_trace made
    \* exec_args_from_slice
    umem,         \* caller memory: address -> byte
    cargs,        \* the parameter `args` (address of the vector)
    csize,        \* the parameter `size` (number of entries)
    centries,     \* what the caller stored: <<[addr, len]>>
    ci,           \* entries consumed by the for loop
    cresult,      \* the local Vec `result`
    cpc,          \* "loop" | "done" | "fault"
    \* ExecArgs::push_into_stack
    inner,        \* ExecArgs.inner
    stackMem,     \* the stack image: address -> byte
    stackPtr,     \* the StackHelper cursor
    tops,         \* the local Vec `tops`
    li,           \* buffers consumed by the for loop
    lpc,          \* "loop" | "done"
    \* tag_memory
    memTags,      \* current thread's mem_tags: range -> label
    tagLock,      \* holder of the mem_tags mutex, 0 when free
    tpc,          \* per context: position inside tag_memory
    targ,         \* per context: [ptr, size, tag] of the invocation
    trange,       \* per context: the range evaluated for insert
    tsnap,        \* per context: the table as read by insert
    tret,         \* per context: value returned
    tcalls,       \* number of invocations started
    thist         \* completed inserts, in order: <<[range, tag]>>

dispVars    == <<frame, dpc, calls, errlog, hret, result, retword>>
logVars     == <<slog, slpc, traceLog, unwinds>>
collectVars == <<umem, cargs, csize, centries, ci, cresult, cpc>>
layoutVars  == <<inner, stackMem, stackPtr, tops, li, lpc>>
tagVars     == <<memTags, tagLock, tpc, targ, trange, tsnap, tret, tcalls, thist>>
vars == <<dispVars, logVars, collectVars, layoutVars, tagVars>>

-----------------------------------------------------------------------------
(* Machine words.  usize is modelled WordBits wide; arithmetic that can    *)
(* overflow is taken modulo 2^WordBits.                                    *)
WordBits == 8
WordMod == 2 ^ WordBits
WordMax == WordMod - 1

\* Result<usize, SyscallError>
Ok(v) == [tag |-> "Ok", val |-> v]
Err(e) == [tag |-> "Err", val |-> e]
None == [tag |-> "None", val |-> 0]
is_ok(r) == r.tag = "Ok"
is_err(r) == r.tag = "Err"

\* SyscallError codes (aero_syscall), as far as the layer distinguishes them
EINVAL == 1
ENOSYS == 2
EFAULT == 3
SyscallErrors == {EINVAL, ENOSYS, EFAULT}

\* aero_syscall::AT_FDCWD (-100) as a machine word
AT_FDCWD == WordMod - 100

\* aero_syscall::syscall_result_as_usize: Ok(v) is v, Err(e) is -(e) as usize
syscall_result_as_usize(r) ==
    IF is_ok(r) THEN r.val ELSE (WordMod - r.val) % WordMod

-----------------------------------------------------------------------------
(* generic_do_syscall                                                      *)

\* The arms of `match a`, in source order.  args names the expressions the
\* arm passes to the handler.
SyscallTable ==
    <<
       [code |-> "SYS_EXIT", fn |-> "process::exit", args |-> <<"b">>],
       [code |-> "SYS_SHUTDOWN", fn |-> "process::shutdown", args |-> <<>>],
       [code |-> "SYS_FORK", fn |-> "process::fork", args |-> <<>>],
       [code |-> "SYS_MMAP", fn |-> "process::mmap", args |-> <<"b", "c", "d", "e", "f", "g">>],
       [code |-> "SYS_MUNMAP", fn |-> "process::munmap", args |-> <<"b", "c">>],
       [code |-> "SYS_MPROTECT", fn |-> "process::mprotect", args |-> <<"b", "c", "d">>],
       [code |-> "SYS_EXEC", fn |-> "process::exec", args |-> <<"b", "c", "d", "e", "f", "g">>],
       [code |-> "SYS_LOG", fn |-> "process::log", args |-> <<"b", "c">>],
       [code |-> "SYS_UNAME", fn |-> "process::uname", args |-> <<"b">>],
       [code |-> "SYS_WAITPID", fn |-> "process::waitpid", args |-> <<"b", "c", "d">>],
       [code |-> "SYS_GETPID", fn |-> "process::getpid", args |-> <<>>],
       [code |-> "SYS_GETPPID", fn |-> "process::getppid", args |-> <<>>],
       [code |-> "SYS_GETTID", fn |-> "process::gettid", args |-> <<>>],
       [code |-> "SYS_GETHOSTNAME", fn |-> "process::gethostname", args |-> <<"b", "c">>],
       [code |-> "SYS_SETHOSTNAME", fn |-> "process::sethostname", args |-> <<"b", "c">>],
       [code |-> "SYS_INFO", fn |-> "process::info", args |-> <<"b">>],
       [code |-> "SYS_SIGACTION", fn |-> "process::sigaction", args |-> <<"b", "c", "d", "e">>],
       [code |-> "SYS_SIGPROCMASK", fn |-> "process::sigprocmask", args |-> <<"b", "c", "d">>],
       [code |-> "SYS_CLONE", fn |-> "process::clone", args |-> <<"b", "c">>],
       [code |-> "SYS_KILL", fn |-> "process::kill", args |-> <<"b", "c">>],
       [code |-> "SYS_BACKTRACE", fn |-> "process::backtrace", args |-> <<>>],
       [code |-> "SYS_TRACE", fn |-> "process::trace", args |-> <<>>],
       [code |-> "SYS_SETPGID", fn |-> "process::setpgid", args |-> <<"b", "c">>],
       [code |-> "SYS_SETSID", fn |-> "process::setsid", args |-> <<>>],
       [code |-> "SYS_GETPGID", fn |-> "process::getpgid", args |-> <<"b">>],
       [code |-> "SYS_READ", fn |-> "fs::read", args |-> <<"b", "c", "d">>],
       [code |-> "SYS_OPEN", fn |-> "fs::open", args |-> <<"b", "c", "d", "e">>],
       [code |-> "SYS_CLOSE", fn |-> "fs::close", args |-> <<"b">>],
       [code |-> "SYS_WRITE", fn |-> "fs::write", args |-> <<"b", "c", "d">>],
       [code |-> "SYS_GETDENTS", fn |-> "fs::getdents", args |-> <<"b", "c", "d">>],
       [code |-> "SYS_GETCWD", fn |-> "fs::getcwd", args |-> <<"b", "c">>],
       [code |-> "SYS_CHDIR", fn |-> "fs::chdir", args |-> <<"b", "c">>],
       [code |-> "SYS_MKDIR_AT", fn |-> "fs::mkdirat", args |-> <<"b", "c", "d">>],
       [code |-> "SYS_RMDIR", fn |-> "fs::rmdir", args |-> <<"b", "c">>],
       [code |-> "SYS_IOCTL", fn |-> "fs::ioctl", args |-> <<"b", "c", "d">>],
       [code |-> "SYS_SEEK", fn |-> "fs::seek", args |-> <<"b", "c", "d">>],
       [code |-> "SYS_ACCESS", fn |-> "fs::access", args |-> <<"b", "c", "d", "e", "f">>],
       [code |-> "SYS_PIPE", fn |-> "fs::pipe", args |-> <<"b", "c">>],
       [code |-> "SYS_UNLINK", fn |-> "fs::unlink", args |-> <<"b", "c", "d", "e">>],
       [code |-> "SYS_DUP", fn |-> "fs::dup", args |-> <<"b", "c">>],
       [code |-> "SYS_DUP2", fn |-> "fs::dup2", args |-> <<"b", "c", "d">>],
       [code |-> "SYS_FCNTL", fn |-> "fs::fcntl", args |-> <<"b", "c", "d">>],
       [code |-> "SYS_STAT", fn |-> "fs::stat", args |-> <<"b", "c", "d">>],
       [code |-> "SYS_FSTAT", fn |-> "fs::fstat", args |-> <<"b", "c">>],
       [code |-> "SYS_READ_LINK", fn |-> "fs::read_link", args |-> <<"b", "c", "d", "e">>],
       [code |-> "SYS_EVENT_FD", fn |-> "fs::event_fd", args |-> <<"b", "c">>],
       [code |-> "SYS_LINK", fn |-> "fs::link", args |-> <<"b", "c", "d", "e">>],
       [code |-> "SYS_POLL", fn |-> "fs::poll", args |-> <<"b", "c", "d", "e">>],
       [code |-> "SYS_RENAME", fn |-> "fs::rename", args |-> <<"b", "c", "d", "e">>],
       [code |-> "SYS_EPOLL_CREATE", fn |-> "fs::epoll_create", args |-> <<"b">>],
       [code |-> "SYS_EPOLL_CTL", fn |-> "fs::epoll_ctl", args |-> <<"b", "c", "d", "e">>],
       [code |-> "SYS_EPOLL_PWAIT", fn |-> "fs::epoll_pwait", args |-> <<"b", "c", "d", "e", "f">>],
       [code |-> "SYS_SOCKET", fn |-> "net::socket", args |-> <<"b", "c", "d">>],
       [code |-> "SYS_BIND", fn |-> "net::bind", args |-> <<"b", "c", "d">>],
       [code |-> "SYS_CONNECT", fn |-> "net::connect", args |-> <<"b", "c", "d">>],
       [code |-> "SYS_LISTEN", fn |-> "net::listen", args |-> <<"b", "c">>],
       [code |-> "SYS_ACCEPT", fn |-> "net::accept", args |-> <<"b", "c", "d">>],
       [code |-> "SYS_SOCK_RECV", fn |-> "net::sock_recv", args |-> <<"b", "c", "d">>],
       [code |-> "SYS_SOCK_SEND", fn |-> "net::sock_send", args |-> <<"b", "c", "d">>],
       [code |-> "SYS_SOCKET_PAIR", fn |-> "net::socket_pair", args |-> <<"b", "c", "d", "e">>],
       [code |-> "SYS_SOCK_SHUTDOWN", fn |-> "net::shutdown", args |-> <<"b", "c">>],
       [code |-> "SYS_GETPEERNAME", fn |-> "net::get_peername", args |-> <<"b", "c", "d">>],
       [code |-> "SYS_GETSOCKNAME", fn |-> "net::get_sockname", args |-> <<"b", "c", "d">>],
       [code |-> "SYS_SETSOCKOPT", fn |-> "net::setopt", args |-> <<"a", "b", "c", "d", "e">>],
       [code |-> "SYS_GETTIME", fn |-> "time::gettime", args |-> <<"b", "c">>],
       [code |-> "SYS_SLEEP", fn |-> "time::sleep", args |-> <<"b">>],
       [code |-> "SYS_SETITIMER", fn |-> "time::setitimer", args |-> <<"b", "c", "d">>],
       [code |-> "SYS_GETITIMER", fn |-> "time::getitimer", args |-> <<"b", "c">>],
       [code |-> "SYS_IPC_SEND", fn |-> "ipc::send", args |-> <<"b", "c", "d">>],
       [code |-> "SYS_IPC_RECV", fn |-> "ipc::recv", args |-> <<"b", "c", "d", "e">>],
       [code |-> "SYS_IPC_DISCOVER_ROOT", fn |-> "ipc::discover_root", args |-> <<>>],
       [code |-> "SYS_IPC_BECOME_ROOT", fn |-> "ipc::become_root", args |-> <<>>],
       [code |-> "SYS_FUTEX_WAIT", fn |-> "futex::wait", args |-> <<"b", "c", "d">>],
       [code |-> "SYS_FUTEX_WAKE", fn |-> "futex::wake", args |-> <<"b">>],
       [code |-> "SYS_MKDIR", fn |-> "fs::mkdirat", args |-> <<"AT_FDCWD", "b", "c">>],
       [code |-> "SYS_DEBUG", fn |-> "tag_memory", args |-> <<"b", "c", "d", "e">>]
    >>

NumArms == Len(SyscallTable)

\* The selector word of an arm.  The values of the SYS_* constants live in
\* aero_syscall; the arms are numbered here in match order, which keeps them
\* pairwise distinct.
SYS(code) == CHOOSE n \in 1..NumArms : SyscallTable[n].code = code

MaxUnknown == 2
MaxArgWord == 1
KnownSelectors == 1..NumArms
UnknownSelectors == {0} \cup ((NumArms + 1)..(NumArms + MaxUnknown))
Selectors == KnownSelectors \cup UnknownSelectors
ArgWords == 0..MaxArgWord
Frames == [a : Selectors, b : ArgWords, c : ArgWords, d : ArgWords,
           e : ArgWords, f : ArgWords, g : ArgWords]
NoFrame == [a |-> 0, b |-> 0, c |-> 0, d |-> 0, e |-> 0, f |-> 0, g |-> 0]

\* What a handler collaborator may return
HandlerOutcomes == {Ok(0), Ok(1)} \cup {Err(e) : e \in SyscallErrors}

\* The value of one argument expression of an arm
ArgValue(fr, expr) == IF expr = "AT_FDCWD" THEN AT_FDCWD ELSE fr[expr]

HexDigit(n) == <<"0", "1", "2", "3", "4", "5", "6", "7",
                 "8", "9", "a", "b", "c", "d", "e", "f">>[n + 1]

RECURSIVE HexString(_)
HexString(n) ==
    IF n < 16 THEN HexDigit(n) ELSE HexString(n \div 16) \o HexDigit(n % 16)

\* format!("{:#x}", n)
FormatHex(n) == "0x" \o HexString(n)

\* A matched arm: the handler is called with the arm's argument expressions
MatchedArm(fr) ==
    LET arm == SyscallTable[fr.a]
    IN  /\ calls' = Append(calls,
                [fn |-> arm.fn,
                 args |-> [k \in 1..Len(arm.args) |-> ArgValue(fr, arm.args[k])]])
        /\ dpc' = "handler"
        /\ UNCHANGED <<errlog, hret, result, retword>>

\* The `_` arm with the error line left out and the wrong error kind
DefaultArmBad(fr) ==
    /\ result' = Err(EINVAL)
    /\ dpc' = "encode"
    /\ UNCHANGED <<calls, errlog, hret, retword>>

\* The `_` arm
DefaultArm(fr) ==
    /\ errlog' = Append(errlog, [level |-> "error",
                                 text |-> "invalid syscall: " \o FormatHex(fr.a)])
    /\ result' = Err(ENOSYS)
    /\ dpc' = "encode"
    /\ UNCHANGED <<calls, hret, retword>>

\* Entry: the trap handler passes the seven words and `match a` selects an arm
DoSyscall ==
    /\ dpc = "idle"
    /\ \E fr \in Frames :
        /\ frame' = fr
        /\ IF fr.a \in KnownSelectors THEN MatchedArm(fr) ELSE DefaultArm(fr)
    /\ UNCHANGED <<logVars, collectVars, layoutVars, tagVars>>

\* The handler collaborator returns its outcome, which becomes `result`
HandlerReturn ==
    /\ dpc = "handler"
    /\ \E o \in HandlerOutcomes :
        /\ hret' = o
        /\ result' = o
    /\ dpc' = "encode"
    /\ UNCHANGED <<frame, calls, errlog, retword>>
    /\ UNCHANGED <<logVars, collectVars, layoutVars, tagVars>>

\* The tail call with handler errors turned into a success of 0
EncodeResultBad ==
    /\ dpc = "encode"
    /\ retword' = syscall_result_as_usize(IF is_err(result) THEN Ok(0) ELSE result)
    /\ dpc' = "done"
    /\ UNCHANGED <<frame, calls, errlog, hret, result>>
    /\ UNCHANGED <<logVars, collectVars, layoutVars, tagVars>>

\* aero_syscall::syscall_result_as_usize(result)
EncodeResult ==
    /\ dpc = "encode"
    /\ retword' = syscall_result_as_usize(result)
    /\ dpc' = "done"
    /\ UNCHANGED <<frame, calls, errlog, hret, result>>
    /\ UNCHANGED <<logVars, collectVars, layoutVars, tagVars>>

DispInit ==
    /\ frame = NoFrame
    /\ dpc = "idle"
    /\ calls = <<>>
    /\ errlog = <<>>
    /\ hret = None
    /\ result = None
    /\ retword = 0

-----------------------------------------------------------------------------
(* SysLog                                                                  *)

MaxLogArgs == 2
LogNames == {"X", "open"}
LogInts == {0, 1}
LogStrs == {"heap"}
LogResults == HandlerOutcomes

\* <T as Display>::fmt and <T as Debug>::fmt for the argument types used
DisplayInt(n) == ToString(n)
DebugInt(n) == ToString(n)
DisplayStr(s) == s
DebugStr(s) == "\"" \o s \o "\""

\* <SyscallError as Debug>::fmt
ErrName(e) ==
    CASE e = EINVAL -> "EINVAL"
      [] e = ENOSYS -> "ENOSYS"
      [] e = EFAULT -> "EFAULT"

\* <Result<usize, SyscallError> as Debug>::fmt
DebugResult(r) ==
    IF is_ok(r) THEN "Ok(" \o ToString(r.val) \o ")"
                ELSE "Err(" \o ErrName(r.val) \o ")"

\* The escape sequences "\x1b[1;32m", "\x1b[1;31m" and "\x1b[0m"
AnsiGreen == "<ESC>[1;32m"
AnsiRed == "<ESC>[1;31m"
AnsiReset == "<ESC>[0m"

\* SysLog::new
SysLogNew ==
    /\ slpc = "none"
    /\ \E n \in LogNames : slog' = [name |-> n, result |-> None, args |-> <<>>]
    /\ slpc' = "building"
    /\ UNCHANGED <<traceLog, unwinds>>
    /\ UNCHANGED <<dispVars, collectVars, layoutVars, tagVars>>

\* SysLog::add_argument
AddArgument ==
    /\ slpc = "building"
    /\ Len(slog.args) < MaxLogArgs
    /\ \/ \E n \in LogInts :
            slog' = [slog EXCEPT !.args = Append(@, DisplayInt(n))]
       \/ \E s \in LogStrs :
            slog' = [slog EXCEPT !.args = Append(@, DisplayStr(s))]
    /\ UNCHANGED <<slpc, traceLog, unwinds>>
    /\ UNCHANGED <<dispVars, collectVars, layoutVars, tagVars>>

\* SysLog::add_argument_dbg
AddArgumentDbg ==
    /\ slpc = "building"
    /\ Len(slog.args) < MaxLogArgs
    /\ \/ \E n \in LogInts :
            slog' = [slog EXCEPT !.args = Append(@, DebugInt(n))]
       \/ \E s \in LogStrs :
            slog' = [slog EXCEPT !.args = Append(@, DebugStr(s))]
    /\ UNCHANGED <<slpc, traceLog, unwinds>>
    /\ UNCHANGED <<dispVars, collectVars, layoutVars, tagVars>>

\* SysLog::set_result
SetResult ==
    /\ slpc = "building"
    /\ \E r \in LogResults : slog' = [slog EXCEPT !.result = r]
    /\ UNCHANGED <<slpc, traceLog, unwinds>>
    /\ UNCHANGED <<dispVars, collectVars, layoutVars, tagVars>>

\* The `for (i, e) in self.args.iter().enumerate()` loop of flush: the text
\* pushed for the elements from index i (0-based) on
RECURSIVE PushArgs(_, _)
PushArgs(args, i) ==
    IF i >= Len(args) THEN ""
    ELSE (IF i # 0 THEN ", " ELSE "") \o args[i + 1] \o PushArgs(args, i + 1)

\* The String `result` built by flush
FlushText(s) ==
    (IF is_ok(s.result) THEN AnsiGreen ELSE AnsiRed)
        \o s.name \o AnsiReset \o "("
        \o PushArgs(s.args, 0)
        \o ") = " \o DebugResult(s.result)

\* flush that dumps the stack trace whatever the outcome
FlushUnwindAlways ==
    /\ slpc = "building"
    /\ IF slog.result = None
       THEN /\ slpc' = "panicked"
            /\ UNCHANGED <<slog, traceLog, unwinds>>
       ELSE /\ traceLog' = Append(traceLog,
                                  [level |-> "trace", text |-> FlushText(slog)])
            /\ unwinds' = unwinds + 1
            /\ slpc' = "flushed"
            /\ UNCHANGED slog
    /\ UNCHANGED <<dispVars, collectVars, layoutVars, tagVars>>

\* flush that takes a missing outcome for an error instead of unwrapping it
FlushNoUnwrap ==
    /\ slpc = "building"
    /\ traceLog' = Append(traceLog,
                          [level |-> "trace",
                           text |-> IF slog.result = None
                                    THEN AnsiRed \o slog.name \o AnsiReset \o "("
                                         \o PushArgs(slog.args, 0) \o ") = None"
                                    ELSE FlushText(slog)])
    /\ unwinds' = IF is_ok(slog.result) THEN unwinds ELSE unwinds + 1
    /\ slpc' = "flushed"
    /\ UNCHANGED slog
    /\ UNCHANGED <<dispVars, collectVars, layoutVars, tagVars>>

\* SysLog::flush.  self.result.unwrap() on None panics before anything is
\* pushed or logged.
Flush ==
    /\ slpc = "building"
    /\ IF slog.result = None
       THEN /\ slpc' = "panicked"
            /\ UNCHANGED <<slog, traceLog, unwinds>>
       ELSE /\ traceLog' = Append(traceLog,
                                  [level |-> "trace", text |-> FlushText(slog)])
            /\ unwinds' = IF is_err(slog.result) THEN unwinds + 1 ELSE unwinds
            /\ slpc' = "flushed"
            /\ UNCHANGED slog
    /\ UNCHANGED <<dispVars, collectVars, layoutVars, tagVars>>

LogInit ==
    /\ slog = [name |-> "", result |-> None, args |-> <<>>]
    /\ slpc = "none"
    /\ traceLog = <<>>
    /\ unwinds = 0

-----------------------------------------------------------------------------
(* exec_args_from_slice                                                    *)

MaxArgc == 2
MaxArgLen == 2
Bytes == {0, 1}

\* size_of::<usize>()
WordBytes == 8
\* size_of::<[usize; 2]>()
EntryBytes == 2 * WordBytes

\* Caller memory: a data region, then the vector of [usize; 2] entries.
\* Addresses from MemSize on are not mapped.
DataSize == MaxArgLen + 1
VecBase == DataSize
MemSize == VecBase + MaxArgc * EntryBytes
Mapped(addr, len) == addr >= 0 /\ addr + len <= MemSize
BufAddrs == (0..(DataSize - 1)) \cup {MemSize}

\* usize::to_le_bytes, byte k (0-based) of the word v
RECURSIVE LeByte(_, _)
LeByte(v, k) == IF k = 0 THEN v % 256 ELSE LeByte(v \div 256, k - 1)

\* The byte the caller stored at offset off of its vector
VecByte(es, off) ==
    LET idx  == (off \div EntryBytes) + 1
        word == (off % EntryBytes) \div WordBytes
        k    == off % WordBytes
    IN  IF idx > Len(es) THEN 0
        ELSE LeByte(IF word = 0 THEN es[idx].addr ELSE es[idx].len, k)

\* Reading a usize at addr: the little-endian value of WordBytes bytes
RECURSIVE ReadLe(_, _, _)
ReadLe(m, addr, n) ==
    IF n = 0 THEN 0 ELSE m[addr] + 256 * ReadLe(m, addr + 1, n - 1)

ReadUsize(m, addr) == ReadLe(m, addr, WordBytes)

\* boxed.as_mut_ptr().copy_from(ptr, len); boxed.assume_init()
CopyFrom(m, ptr, len) == [k \in 1..len |-> m[ptr + k - 1]]

\* One iteration with the entries taken WordBytes apart instead of a pair apart
CollectStepBadStride ==
    /\ cpc = "loop"
    /\ ci < csize
    /\ LET entry  == cargs + ci * WordBytes
           inner0 == ReadUsize(umem, entry)
           inner1 == ReadUsize(umem, entry + WordBytes)
       IN  IF inner1 > 0 /\ ~Mapped(inner0, inner1)
           THEN /\ cpc' = "fault"
                /\ UNCHANGED <<ci, cresult>>
           ELSE /\ cresult' = Append(cresult, CopyFrom(umem, inner0, inner1))
                /\ ci' = ci + 1
                /\ UNCHANGED cpc
    /\ UNCHANGED <<umem, cargs, csize, centries>>
    /\ UNCHANGED <<dispVars, logVars, layoutVars, tagVars>>

\* One iteration of `for inner in slice`: inner[0] is the source address and
\* inner[1] the length.  A copy from an address that is not mapped faults.
CollectStep ==
    /\ cpc = "loop"
    /\ ci < csize
    /\ LET entry  == cargs + ci * EntryBytes
           inner0 == ReadUsize(umem, entry)
           inner1 == ReadUsize(umem, entry + WordBytes)
       IN  IF inner1 > 0 /\ ~Mapped(inner0, inner1)
           THEN /\ cpc' = "fault"
                /\ UNCHANGED <<ci, cresult>>
           ELSE /\ cresult' = Append(cresult, CopyFrom(umem, inner0, inner1))
                /\ ci' = ci + 1
                /\ UNCHANGED cpc
    /\ UNCHANGED <<umem, cargs, csize, centries>>
    /\ UNCHANGED <<dispVars, logVars, layoutVars, tagVars>>

\* ExecArgs { inner: result }
CollectReturn ==
    /\ cpc = "loop"
    /\ ci = csize
    /\ cpc' = "done"
    /\ UNCHANGED <<umem, cargs, csize, centries, ci, cresult>>
    /\ UNCHANGED <<dispVars, logVars, layoutVars, tagVars>>

\* The call exec_args_from_slice(args, size) on a vector the caller stored
CollectInit ==
    /\ \E n \in 0..MaxArgc :
       \E es \in [1..n -> [addr : BufAddrs, len : 0..MaxArgLen]] :
       \E data \in [0..(DataSize - 1) -> Bytes] :
            /\ centries = es
            /\ csize = n
            /\ umem = [x \in 0..(MemSize - 1) |->
                         IF x < DataSize THEN data[x] ELSE VecByte(es, x - VecBase)]
    /\ cargs = VecBase
    /\ ci = 0
    /\ cresult = <<>>
    /\ cpc = "loop"

CollectIdle ==
    /\ umem = <<>>
    /\ cargs = 0
    /\ csize = 0
    /\ centries = <<>>
    /\ ci = 0
    /\ cresult = <<>>
    /\ cpc = "done"

-----------------------------------------------------------------------------
(* ExecArgs::push_into_stack                                               *)

\* The stack image holds addresses 0..StackTop-1; the cursor starts at StackTop
StackTop == MaxArgc * (MaxArgLen + 1)

RECURSIVE SeqsUpTo(_, _)
SeqsUpTo(S, n) ==
    IF n = 0 THEN {<<>>}
    ELSE LET shorter == SeqsUpTo(S, n - 1)
         IN  shorter \cup {Append(q, x) : q \in shorter, x \in S}

Buffers == SeqsUpTo(Bytes, MaxArgLen)

\* StackHelper: a downward-growing region; st is [ptr, mem]
\* StackHelper::skip_by
skip_by(st, by) == [st EXCEPT !.ptr = @ - by]
\* StackHelper::write::<u8>
stack_write(st, byte) ==
    LET s1 == skip_by(st, 1)
    IN  [s1 EXCEPT !.mem[s1.ptr] = byte]
\* StackHelper::write_bytes
stack_write_bytes(st, bytes) ==
    LET s1 == skip_by(st, Len(bytes))
    IN  [s1 EXCEPT !.mem = [x \in DOMAIN @ |->
                              IF x >= s1.ptr /\ x < s1.ptr + Len(bytes)
                              THEN bytes[x - s1.ptr + 1] ELSE @[x]]]
\* StackHelper::top
stack_top(st) == st.ptr

\* One iteration that records the top right after the zero byte
PushStepTopAfterZero ==
    /\ lpc = "loop"
    /\ li < Len(inner)
    /\ LET slice == inner[li + 1]
           s1 == stack_write([ptr |-> stackPtr, mem |-> stackMem], 0)
           s2 == stack_write_bytes(s1, slice)
       IN  /\ stackMem' = s2.mem
           /\ stackPtr' = s2.ptr
           /\ tops' = Append(tops, stack_top(s1))
    /\ li' = li + 1
    /\ UNCHANGED <<inner, lpc>>
    /\ UNCHANGED <<dispVars, logVars, collectVars, tagVars>>

\* One iteration of `for slice in self.inner.iter()`
PushStep ==
    /\ lpc = "loop"
    /\ li < Len(inner)
    /\ LET slice == inner[li + 1]
           s1 == stack_write([ptr |-> stackPtr, mem |-> stackMem], 0)
           s2 == stack_write_bytes(s1, slice)
       IN  /\ stackMem' = s2.mem
           /\ stackPtr' = s2.ptr
           /\ tops' = Append(tops, stack_top(s2))
    /\ li' = li + 1
    /\ UNCHANGED <<inner, lpc>>
    /\ UNCHANGED <<dispVars, logVars, collectVars, tagVars>>

\* `tops` is returned
PushReturn ==
    /\ lpc = "loop"
    /\ li = Len(inner)
    /\ lpc' = "done"
    /\ UNCHANGED <<inner, stackMem, stackPtr, tops, li>>
    /\ UNCHANGED <<dispVars, logVars, collectVars, tagVars>>

\* The call push_into_stack(&self, stack) on a fresh stack image
LayoutInit ==
    /\ inner \in SeqsUpTo(Buffers, MaxArgc)
    /\ \E fill \in Bytes : stackMem = [x \in 0..(StackTop - 1) |-> fill]
    /\ stackPtr = StackTop
    /\ tops = <<>>
    /\ li = 0
    /\ lpc = "loop"

LayoutIdle ==
    /\ inner = <<>>
    /\ stackMem = <<>>
    /\ stackPtr = 0
    /\ tops = <<>>
    /\ li = 0
    /\ lpc = "done"

-----------------------------------------------------------------------------
(* tag_memory                                                              *)

MaxTagCalls == 2
NumCtx == 2
Contexts == 1..NumCtx
TagAddrs == {0, 1, WordMax - 1, WordMax}
TagSizes == {0, 1, 2}
Labels == {"heap", "stack"}
TagInputs == [ptr : TagAddrs, size : TagSizes, tag : Labels]
\* The invocations of the concurrent contexts
ConcInputs == [ptr : {0, WordMax}, size : {1}, tag : Labels]
NoInput == [ptr |-> 0, size |-> 0, tag |-> ""]
NoRange == [start |-> 0, end |-> 0]
EmptyMap == [r \in {} |-> ""]

\* `addr + size` overflows the machine word
Overflows(addr, size) == addr + size > WordMax

\* The range with the end taken for the size alone
TagRangeNoBase(addr, size) == [start |-> addr, end |-> size % WordMod]

\* addr..(addr + size), where the addition did not panic
TagRange(addr, size) == [start |-> addr, end |-> (addr + size) % WordMod]

\* HashMap::insert on mem_tags: the value of an equal key is replaced
MapInsert(m, key, value) ==
    [r \in DOMAIN m \cup {key} |-> IF r = key THEN value ELSE m[r]]

\* One whole invocation by the current thread, nothing else running.  With
\* overflow checks compiled in, an overflowing `addr + size` panics (inside
\* the statement, so with the lock taken); without them it wraps.
tag_memory ==
    /\ tcalls < MaxTagCalls
    /\ tagLock = 0
    /\ \A c \in Contexts : tpc[c] = "idle"
    /\ \E in \in TagInputs :
        /\ targ' = [targ EXCEPT ![1] = in]
        /\ \/ /\ Overflows(in.ptr, in.size)
              /\ tpc' = [tpc EXCEPT ![1] = "panicked"]
              /\ tagLock' = 1
              /\ UNCHANGED <<memTags, trange, tret, thist>>
           \/ /\ trange' = [trange EXCEPT ![1] = TagRange(in.ptr, in.size)]
              /\ memTags' = MapInsert(memTags, TagRange(in.ptr, in.size), in.tag)
              /\ tret' = [tret EXCEPT ![1] = Ok(0)]
              /\ thist' = Append(thist, in)
              /\ UNCHANGED <<tpc, tagLock>>
    /\ tcalls' = tcalls + 1
    /\ UNCHANGED tsnap
    /\ UNCHANGED <<dispVars, logVars, collectVars, layoutVars>>

\* Entry that goes on to the insert without taking the lock
TagEnterNoLock(c) ==
    /\ tpc[c] = "idle"
    /\ \E in \in ConcInputs : targ' = [targ EXCEPT ![c] = in]
    /\ tpc' = [tpc EXCEPT ![c] = "range"]
    /\ tcalls' = tcalls + 1
    /\ UNCHANGED <<memTags, tagLock, trange, tsnap, tret, thist>>
    /\ UNCHANGED <<dispVars, logVars, collectVars, layoutVars>>

\* A context enters tag_memory: scheduler::current_thread()
TagEnter(c) ==
    /\ tpc[c] = "idle"
    /\ \E in \in ConcInputs : targ' = [targ EXCEPT ![c] = in]
    /\ tpc' = [tpc EXCEPT ![c] = "lock"]
    /\ tcalls' = tcalls + 1
    /\ UNCHANGED <<memTags, tagLock, trange, tsnap, tret, thist>>
    /\ UNCHANGED <<dispVars, logVars, collectVars, layoutVars>>

\* thread.mem_tags.lock(): the receiver is evaluated first
TagLock(c) ==
    /\ tpc[c] = "lock"
    /\ tagLock = 0
    /\ tagLock' = c
    /\ tpc' = [tpc EXCEPT ![c] = "range"]
    /\ UNCHANGED <<memTags, targ, trange, tsnap, tret, tcalls, thist>>
    /\ UNCHANGED <<dispVars, logVars, collectVars, layoutVars>>

\* The arguments addr..(addr + size) and tag.to_string() are evaluated
TagEvalRange(c) ==
    /\ tpc[c] = "range"
    /\ \/ /\ Overflows(targ[c].ptr, targ[c].size)
          /\ tpc' = [tpc EXCEPT ![c] = "panicked"]
          /\ UNCHANGED trange
       \/ /\ trange' = [trange EXCEPT ![c] = TagRange(targ[c].ptr, targ[c].size)]
          /\ tpc' = [tpc EXCEPT ![c] = "insert"]
    /\ UNCHANGED <<memTags, tagLock, targ, tsnap, tret, tcalls, thist>>
    /\ UNCHANGED <<dispVars, logVars, collectVars, layoutVars>>

\* insert reads the table ...
TagInsertRead(c) ==
    /\ tpc[c] = "insert"
    /\ tsnap' = [tsnap EXCEPT ![c] = memTags]
    /\ tpc' = [tpc EXCEPT ![c] = "store"]
    /\ UNCHANGED <<memTags, tagLock, targ, trange, tret, tcalls, thist>>
    /\ UNCHANGED <<dispVars, logVars, collectVars, layoutVars>>

\* ... and stores the table with the entry added
TagInsertStore(c) ==
    /\ tpc[c] = "store"
    /\ memTags' = MapInsert(tsnap[c], trange[c], targ[c].tag)
    /\ thist' = Append(thist, targ[c])
    /\ tpc' = [tpc EXCEPT ![c] = "unlock"]
    /\ UNCHANGED <<tagLock, targ, trange, tsnap, tret, tcalls>>
    /\ UNCHANGED <<dispVars, logVars, collectVars, layoutVars>>

\* The guard is dropped at the end of the statement
TagUnlock(c) ==
    /\ tpc[c] = "unlock"
    /\ tagLock' = IF tagLock = c THEN 0 ELSE tagLock
    /\ tpc' = [tpc EXCEPT ![c] = "ret"]
    /\ UNCHANGED <<memTags, targ, trange, tsnap, tret, tcalls, thist>>
    /\ UNCHANGED <<dispVars, logVars, collectVars, layoutVars>>

\* Ok(0)
TagReturn(c) ==
    /\ tpc[c] = "ret"
    /\ tret' = [tret EXCEPT ![c] = Ok(0)]
    /\ tpc' = [tpc EXCEPT ![c] = "done"]
    /\ UNCHANGED <<memTags, tagLock, targ, trange, tsnap, tcalls, thist>>
    /\ UNCHANGED <<dispVars, logVars, collectVars, layoutVars>>

TagInit ==
    /\ memTags = EmptyMap
    /\ tagLock = 0
    /\ tpc = [c \in Contexts |-> "idle"]
    /\ targ = [c \in Contexts |-> NoInput]
    /\ trange = [c \in Contexts |-> NoRange]
    /\ tsnap = [c \in Contexts |-> EmptyMap]
    /\ tret = [c \in Contexts |-> None]
    /\ tcalls = 0
    /\ thist = <<>>

-----------------------------------------------------------------------------
(* Specifications                                                          *)

DispIdle == DispInit
LogIdle == LogInit
TagIdle == TagInit

InitDispatch == DispInit /\ LogIdle /\ CollectIdle /\ LayoutIdle /\ TagIdle
NextDispatch == DoSyscall \/ HandlerReturn \/ EncodeResult
SpecDispatch == InitDispatch /\ [][NextDispatch]_vars

InitSysLog == DispIdle /\ LogInit /\ CollectIdle /\ LayoutIdle /\ TagIdle
NextSysLog == SysLogNew \/ AddArgument \/ AddArgumentDbg \/ SetResult \/ Flush
SpecSysLog == InitSysLog /\ [][NextSysLog]_vars

InitCollect == DispIdle /\ LogIdle /\ CollectInit /\ LayoutIdle /\ TagIdle
NextCollect == CollectStep \/ CollectReturn
SpecCollect == InitCollect /\ [][NextCollect]_vars

InitLayout == DispIdle /\ LogIdle /\ CollectIdle /\ LayoutInit /\ TagIdle
NextLayout == PushStep \/ PushReturn
SpecLayout == InitLayout /\ [][NextLayout]_vars

InitTag == DispIdle /\ LogIdle /\ CollectIdle /\ LayoutIdle /\ TagInit
NextTag == tag_memory
SpecTag == InitTag /\ [][NextTag]_vars

NextTagConc ==
    \E c \in Contexts :
        \/ TagEnter(c)
        \/ TagLock(c)
        \/ TagEvalRange(c)
        \/ TagInsertRead(c)
        \/ TagInsertStore(c)
        \/ TagUnlock(c)
        \/ TagReturn(c)
SpecTagConc == InitTag /\ [][NextTagConc]_vars

-----------------------------------------------------------------------------
(* Properties of generic_do_syscall (SpecDispatch)                         *)

Known == frame.a \in KnownSelectors
ArgRegs == <<frame.b, frame.c, frame.d, frame.e, frame.f, frame.g>>

\* C1: for a selector outside the known codes, whatever the six argument
\* words, no handler is invoked, exactly one error-level line naming the
\* selector is written, and the word returned is the encoding of ENOSYS.
C1_UnknownSelectorIsEnosys ==
    (dpc # "idle" /\ ~Known) =>
        /\ dpc # "handler"
        /\ calls = <<>>
        /\ Len(errlog) = 1
        /\ errlog[1].level = "error"
        /\ errlog[1].text = "invalid syscall: " \o FormatHex(frame.a)
        /\ dpc = "done" => retword = syscall_result_as_usize(Err(ENOSYS))

C1_Witness ==
    /\ dpc = "done"
    /\ frame.a = NumArms + 1
    /\ frame.b = 1 /\ frame.g = 1
    /\ retword = WordMod - ENOSYS

\* C2: for a recognized selector, exactly one handler, the one of the
\* selector's arm, is invoked exactly once, nothing is logged by the
\* dispatcher, and the word returned is the encoding of exactly what the
\* handler returned, error or success.
C2_OneHandlerOutcomeForwarded ==
    (dpc # "idle" /\ Known) =>
        /\ Len(calls) = 1
        /\ calls[1].fn = SyscallTable[frame.a].fn
        /\ errlog = <<>>
        /\ dpc \in {"encode", "done"} => result = hret
        /\ dpc = "done" => retword = syscall_result_as_usize(hret)

C2_Witness ==
    /\ dpc = "done"
    /\ frame.a = SYS("SYS_OPEN")
    /\ calls = <<[fn |-> "fs::open", args |-> <<frame.b, frame.c, frame.d, frame.e>>]>>
    /\ hret = Err(EFAULT)
    /\ retword = WordMod - EFAULT

\* C8: for a recognized selector, the words passed to the handler are a
\* leading prefix of the six argument words b..g in their order; the
\* selector word a is not among the arguments.
C8_ArgsArePrefixOfFrameArgs ==
    (dpc # "idle" /\ Known) =>
        calls[1].args = SubSeq(ArgRegs, 1, Len(calls[1].args))

-----------------------------------------------------------------------------
(* Properties of exec_args_from_slice (SpecCollect)                        *)

\* C3: the buffers collected so far are, in order, the bytes of the caller
\* memory described by the entries of the vector (length and content, a
\* length of zero included); on return there are exactly as many buffers
\* as entries; the copy faults only on an entry that is not mapped.
C3_CollectRoundTrip ==
    /\ Len(cresult) <= Len(centries)
    /\ \A i \in 1..Len(cresult) :
        /\ Len(cresult[i]) = centries[i].len
        /\ \A k \in 1..centries[i].len :
            cresult[i][k] = umem[centries[i].addr + k - 1]
    /\ cpc = "done" => Len(cresult) = Len(centries)
    /\ cpc = "fault" =>
        \E i \in 1..Len(centries) :
            centries[i].len > 0 /\ centries[i].addr + centries[i].len > MemSize

C3_Witness ==
    /\ cpc = "done"
    /\ csize = 2
    /\ centries[1].len = 0
    /\ centries[2].len = 2
    /\ cresult = << <<>>, <<1, 0>> >>

-----------------------------------------------------------------------------
(* Properties of ExecArgs::push_into_stack (SpecLayout)                    *)

\* C4 as stated: k addresses in buffer order, and at each returned address
\* the image holds a zero byte followed by the bytes of the buffer.
C4_ZeroByteThenBuffer ==
    lpc = "done" =>
        /\ Len(tops) = Len(inner)
        /\ \A i \in 1..Len(inner) :
            /\ stackMem[tops[i]] = 0
            /\ \A k \in 1..Len(inner[i]) : stackMem[tops[i] + k] = inner[i][k]

\* C4 amended: k addresses in buffer order, and at each returned address
\* the image holds the bytes of the buffer followed by one zero byte.
C4_BufferThenZeroByte ==
    lpc = "done" =>
        /\ Len(tops) = Len(inner)
        /\ \A i \in 1..Len(inner) :
            /\ tops[i] \in DOMAIN stackMem
            /\ tops[i] + Len(inner[i]) \in DOMAIN stackMem
            /\ \A k \in 1..Len(inner[i]) :
                stackMem[tops[i] + k - 1] = inner[i][k]
            /\ stackMem[tops[i] + Len(inner[i])] = 0

C4_Witness ==
    /\ lpc = "done"
    /\ inner = << <<1, 0>>, <<>>  >>
    /\ tops = <<StackTop - 3, StackTop - 4>>
    /\ stackMem[StackTop - 3] = 1

-----------------------------------------------------------------------------
(* Properties of SysLog (SpecSysLog)                                       *)

\* The argument strings joined by ", ", built from the last one backwards
RECURSIVE CommaJoined(_)
CommaJoined(args) ==
    IF args = <<>> THEN ""
    ELSE IF Len(args) = 1 THEN args[1]
    ELSE CommaJoined(SubSeq(args, 1, Len(args) - 1)) \o ", " \o args[Len(args)]

\* C5: flushing a record with an outcome writes exactly one trace-level
\* line, the (coloured) name, the arguments in append order comma-joined in
\* parentheses, " = " and the outcome, and dumps the stack trace once for an
\* error outcome and not at all for a success.
C5_FlushOneLineUnwindOnError ==
    slpc = "flushed" =>
        /\ Len(traceLog) = 1
        /\ traceLog[1].level = "trace"
        /\ traceLog[1].text =
              (IF slog.result.tag = "Ok" THEN AnsiGreen ELSE AnsiRed)
              \o slog.name \o AnsiReset
              \o "(" \o CommaJoined(slog.args) \o ")"
              \o " = " \o DebugResult(slog.result)
        /\ unwinds = (IF slog.result.tag = "Err" THEN 1 ELSE 0)
        /\ slog = [name |-> "X", result |-> Ok(0), args |-> <<>>] =>
              traceLog[1].text = "<ESC>[1;32mX<ESC>[0m() = Ok(0)"

C5_Witness ==
    /\ slpc = "flushed"
    /\ slog.result = Err(ENOSYS)
    /\ slog.args = <<"1", "\"heap\"">>
    /\ traceLog[1].text = "<ESC>[1;31mopen<ESC>[0m(1, \"heap\") = Err(ENOSYS)"
    /\ unwinds = 1

\* C9: flushing a record on which set_result was never called panics, with
\* no trace line written and no stack-trace dump made; a line exists only for
\* a record that has an outcome.
C9_FlushWithoutResultPanics ==
    /\ slpc = "panicked" => slog.result = None /\ traceLog = <<>> /\ unwinds = 0
    /\ slpc = "flushed" => slog.result # None
    /\ traceLog # <<>> => slog.result # None
    /\ unwinds > 0 => slog.result # None

C9_Witness ==
    /\ slpc = "panicked"
    /\ Len(slog.args) = MaxLogArgs
    /\ slog.result = None
    /\ traceLog = <<>>

-----------------------------------------------------------------------------
(* Properties of tag_memory, one thread (SpecTag)                          *)

\* The half-open range [A, A+S) of an invocation, in machine-word arithmetic
RangeOfCall(h) ==
    [start |-> h.ptr,
     end |-> IF h.ptr + h.size <= WordMax THEN h.ptr + h.size
             ELSE h.ptr + h.size - WordMod]

\* The entry of a completed invocation is in the map
Present(h) ==
    /\ RangeOfCall(h) \in DOMAIN memTags
    /\ memTags[RangeOfCall(h)] = h.tag

\* Two ranges share a byte
Overlap(r1, r2) ==
    /\ r1.start < r1.end /\ r2.start < r2.end
    /\ r1.start < r2.end /\ r2.start < r1.end

C7_NoPanicNoEntryLost ==
    /\ \A c \in Contexts : tpc[c] # "panicked"
    /\ tcalls > 0 => tret[1] = Ok(0)
    /\ \A i \in 1..Len(thist) : Present(thist[i])

-----------------------------------------------------------------------------
(* Properties of tag_memory, concurrent contexts (SpecTagConc)             *)

InsideLock(c) == tpc[c] \in {"range", "insert", "store", "unlock", "panicked"}

\* C10: a context evaluates and performs its insert only while it holds the
\* mem_tags lock, never two contexts at once; a context that has left the
\* statement or returned does not hold the lock; and once every invocation
\* has returned, the map has the range of each, with its label when no
\* other invocation used the same range.
C10_InsertUnderLockNoneLost ==
    /\ \A c \in Contexts : InsideLock(c) => tagLock = c
    /\ \A c, d \in Contexts : (InsideLock(c) /\ InsideLock(d)) => c = d
    /\ \A c \in Contexts : tpc[c] \in {"ret", "done"} => tagLock # c
    /\ (\A c \in Contexts : tpc[c] \in {"idle", "done"}) =>
        \A c \in Contexts : tpc[c] = "done" =>
            /\ tret[c] = Ok(0)
            /\ trange[c] \in DOMAIN memTags
            /\ (\A d \in Contexts \ {c} :
                    tpc[d] = "done" => trange[d] # trange[c])
                => memTags[trange[c]] = targ[c].tag

C10_Witness ==
    /\ tpc[1] = "lock"
    /\ tpc[2] = "store"
    /\ tagLock = 2
    /\ thist = <<>>
    /\ trange[2] = [start |-> 0, end |-> 1]

=============================================================================
